---- MODULE Spec2Model ----
(***************************************************************************)
(* Model of nomad-plugin-tests: the test-orchestration pipeline of         *)
(* src/nomad_plugin_tests/cli.py and the package construction of           *)
(* src/nomad_plugin_tests/parsing.py.                                      *)
(*                                                                         *)
(* Strings are modelled as sequences of tokens, e.g. the URL               *)
(* "https://github.com/org/repo.git" is                                    *)
(* <<"https://", "github.com", "/org/repo", ".git">> and the version       *)
(* "1.2.3.dev0" is <<"1.2.3", ".dev", "0">>; substring, suffix and         *)
(* concatenation are computed on the tokens.  Python's None, where a       *)
(* string may stand, is the reserved one-token sequence None below; the    *)
(* empty string is the empty sequence.                                     *)
(***************************************************************************)
EXTENDS Integers, Sequences, FiniteSets, TLC

VARIABLES
    plugin_packages,       \* test_plugins: get_plugin_packages() items, in dict order
    plugins_to_skip_list,  \* test_plugins: names given in --plugins-to-skip
    ci_node_total,         \* --ci-node-total
    ci_node_index,         \* --ci-node-index (1-based)
    processes,             \* multiprocessing.cpu_count(): size of the pool
    packages_to_test,      \* the slice handed to run_tests_parallel
    pc,                    \* position of the main process
    tasks,                 \* per index of packages_to_test: the pool task
    handlers,              \* per worker process: names whose log handler is attached
    open_logs,             \* per worker process: names whose log file is open
    temp_dirs,             \* task indices whose temporary directory exists
    completed,             \* task indices in the order the workers completed them
    results,               \* value of pool.map: one return value per task, in input order
    passed_packages,       \* run_tests_parallel: passed names
    failed_packages,       \* run_tests_parallel: failed names
    exit_status,           \* exit status of the process, meaningful once pc = "exit"
    slices,                \* partition check: slices of the nodes 1..n computed so far
    resolved_url           \* URL check: the value get_git_url returned

vars == <<plugin_packages, plugins_to_skip_list, ci_node_total, ci_node_index,
          processes, packages_to_test, pc, tasks, handlers, open_logs, temp_dirs,
          completed, results, passed_packages, failed_packages, exit_status, slices,
          resolved_url>>

(***************************************************************************)
(* Bounds of the model.                                                    *)
(***************************************************************************)
MaxPackages == 3      \* discovered plugin packages in a run
MaxProcesses == 2     \* worker processes of the pool
MaxNodes == 2         \* CI nodes in a run
MaxSplitLen == 5      \* length of the lists the partition check splits
MaxSplitNodes == 3    \* node totals of the partition check

None == <<"<None>">>

Min(a, b) == IF a < b THEN a ELSE b
Max(a, b) == IF a > b THEN a ELSE b

Range(s) == {s[i] : i \in 1..Len(s)}

(***************************************************************************)
(* Python string operations on token sequences.                            *)
(***************************************************************************)
\* Python: tok in s
Contains(s, tok) == \E i \in 1..Len(s) : s[i] = tok

\* Python: s.endswith(tok)
EndsWith(s, tok) == Len(s) > 0 /\ s[Len(s)] = tok

\* Python truthiness of an optional string: neither None nor ""
Truthy(s) == s # None /\ s # <<>>

\* Python: xs[a:b] with the clamping of slice indices
PySlice(xs, a, b) ==
    LET n  == Len(xs)
        lo == IF a < 0 THEN Max(n + a, 0) ELSE Min(a, n)
        hi == IF b < 0 THEN Max(n + b, 0) ELSE Min(b, n)
    IN  SubSeq(xs, lo + 1, hi)

\* Python: xs[a:]
PySliceFrom(xs, a) == PySlice(xs, a, Len(xs))

(***************************************************************************)
(* split_packages(packages_to_test, ci_node_total, ci_node_index)          *)
(***************************************************************************)
\* A slip of split_packages: the last node is cut to packages_per_node like the others
\* and the chunk size is rounded down.
split_packages_floor(pkgs, total, index) ==
    LET packages_per_node == Len(pkgs) \div total
        start_index       == (index - 1) * packages_per_node
    IN  PySlice(pkgs, start_index, start_index + packages_per_node)

\* A slip of split_packages: the node index is taken as 0-based.
split_packages_zero_based(pkgs, total, index) ==
    LET packages_per_node == (Len(pkgs) + total - 1) \div total
        start_index       == index * packages_per_node
        end_index         == start_index + packages_per_node
    IN  IF index = total
        THEN PySliceFrom(pkgs, start_index)
        ELSE PySlice(pkgs, start_index, end_index)

\* A slip of split_packages: the ceiling is written as (len - 1) // total,
\* without the final + 1, so the chunks are short and the last node takes the
\* whole rest.
split_packages_chunk_one_short(pkgs, total, index) ==
    LET packages_per_node == Max(0, Len(pkgs) - 1) \div total
        start_index       == (index - 1) * packages_per_node
        end_index         == start_index + packages_per_node
    IN  IF index = total
        THEN PySliceFrom(pkgs, start_index)
        ELSE PySlice(pkgs, start_index, end_index)

split_packages(pkgs, total, index) ==
    LET packages_per_node == (Len(pkgs) + total - 1) \div total
        start_index       == (index - 1) * packages_per_node
        end_index         == start_index + packages_per_node
    IN  IF index = total
        THEN PySliceFrom(pkgs, start_index)
        ELSE PySlice(pkgs, start_index, end_index)

(***************************************************************************)
(* is_valid_github_url and get_git_url                                     *)
(***************************************************************************)
is_valid_github_url(url) == url # None /\ Contains(url, "github.com")

\* A slip of get_git_url: the homepage is asked before the repository.
get_git_url_homepage_first(package) ==
    LET normalised == IF EndsWith(package.github_url, ".git")
                      THEN package.github_url
                      ELSE Append(package.github_url, ".git")
        g1 == IF Truthy(package.github_url) /\ is_valid_github_url(normalised)
              THEN normalised ELSE None
        g2 == IF g1 = None /\ Truthy(package.homepage)
                           /\ is_valid_github_url(package.homepage)
              THEN package.homepage ELSE g1
        g3 == IF g2 = None /\ Truthy(package.repository)
                           /\ is_valid_github_url(package.repository)
              THEN package.repository ELSE g2
    IN  g3

get_git_url(package) ==
    LET normalised == IF EndsWith(package.github_url, ".git")
                      THEN package.github_url
                      ELSE Append(package.github_url, ".git")
        g1 == IF Truthy(package.github_url) /\ is_valid_github_url(normalised)
              THEN normalised ELSE None
        g2 == IF g1 = None /\ Truthy(package.repository)
                           /\ is_valid_github_url(package.repository)
              THEN package.repository ELSE g1
        g3 == IF g2 = None /\ Truthy(package.homepage)
                           /\ is_valid_github_url(package.homepage)
              THEN package.homepage ELSE g2
    IN  g3

(***************************************************************************)
(* PluginPackage and get_plugin_packages.  A distribution d is what the    *)
(* entry points and the lock data give for one entry point: name, version, *)
(* the Project-URL fields and the git entry of the lock data, if any.      *)
(***************************************************************************)
PluginPackage(name, version, homepage, repository, github_url, commit_hash) ==
    [name |-> name, version |-> version, homepage |-> homepage,
     repository |-> repository, github_url |-> github_url,
     commit_hash |-> commit_hash]

\* The package built for one distribution (parsing.py, the body of the loop).
plugin_package_of(d) ==
    LET plugin_package == PluginPackage(d.name, d.version, d.homepage,
                                        d.repository, None, None)
    IN  IF d.git_info.present
        THEN [plugin_package EXCEPT !.github_url = d.git_info.url,
                                    !.commit_hash = d.git_info.commit]
        ELSE [plugin_package EXCEPT !.github_url = get_git_url(plugin_package),
                                    !.commit_hash = None]

\* A slip of get_plugin_packages_from: the test "package_name not in
\* plugin_packages" is missing and every entry point yields a package.
RECURSIVE get_plugin_packages_from_keeping_duplicates(_, _)
get_plugin_packages_from_keeping_duplicates(dists, plugin_packages_so_far) ==
    IF dists = <<>> THEN plugin_packages_so_far
    ELSE get_plugin_packages_from_keeping_duplicates(Tail(dists),
             Append(plugin_packages_so_far, plugin_package_of(Head(dists))))

RECURSIVE get_plugin_packages_from(_, _)
get_plugin_packages_from(dists, plugin_packages_so_far) ==
    IF dists = <<>> THEN plugin_packages_so_far
    ELSE LET d == Head(dists)
         IN  IF d.name \notin {p.name : p \in Range(plugin_packages_so_far)}
             THEN get_plugin_packages_from(Tail(dists),
                      Append(plugin_packages_so_far, plugin_package_of(d)))
             ELSE get_plugin_packages_from(Tail(dists), plugin_packages_so_far)

get_plugin_packages(dists) == get_plugin_packages_from(dists, <<>>)

(***************************************************************************)
(* The values the model draws its inputs from.                             *)
(***************************************************************************)
UrlGitHub    == <<"https://", "github.com", "/org/repo">>
UrlGitHubGit == <<"https://", "github.com", "/org/repo", ".git">>
UrlOther     == <<"https://", "example.com">>

VersionRelease     == <<"1.2.3">>
VersionPlaceholder == <<"0.0.0">>
VersionDev         == <<"1.2.3", ".dev", "0">>

CommitHash == <<"abc123">>

NoGitInfo == [present |-> FALSE, url |-> None, commit |-> None]
GitInfo(url, commit) == [present |-> TRUE, url |-> url, commit |-> commit]

Distribution(name, version, homepage, repository, git_info) ==
    [name |-> name, version |-> version, homepage |-> homepage,
     repository |-> repository, git_info |-> git_info]

\* All sequences over S of length at most n
RECURSIVE SeqsUpTo(_, _)
SeqsUpTo(S, n) ==
    IF n = 0 THEN {<<>>}
    ELSE LET shorter == SeqsUpTo(S, n - 1)
         IN  shorter \cup {Append(q, x) : q \in shorter, x \in S}

\* Concatenation of a sequence of sequences
RECURSIVE Concat(_)
Concat(ss) == IF ss = <<>> THEN <<>> ELSE Head(ss) \o Concat(Tail(ss))

(***************************************************************************)
(* The partition check: split_packages applied to one list for every node  *)
(* index 1..ci_node_total in turn.                                         *)
(***************************************************************************)
SplitNames == {"p1", "p2", "p3", "p4", "p5", "p6"}

SplitPackage(name) == PluginPackage(name, None, None, None, None, None)

\* Lists of packages with distinct names, of length at most MaxSplitLen
SplitLists ==
    {q \in SeqsUpTo({SplitPackage(n) : n \in SplitNames}, MaxSplitLen) :
        \A i, j \in 1..Len(q) : i # j => q[i] # q[j]}

InitSplit ==
    /\ packages_to_test \in SplitLists
    /\ ci_node_total \in 1..MaxSplitNodes
    /\ ci_node_index = 1
    /\ slices = <<>>
    /\ plugin_packages = <<>>
    /\ plugins_to_skip_list = {}
    /\ processes = 1
    /\ pc = "split"
    /\ tasks = <<>>
    /\ handlers = <<>>
    /\ open_logs = <<>>
    /\ temp_dirs = {}
    /\ completed = <<>>
    /\ results = <<>>
    /\ passed_packages = <<>>
    /\ failed_packages = <<>>
    /\ exit_status = 0
    /\ resolved_url = None

\* The node ci_node_index computes its slice; the next node is next.
SplitNode ==
    /\ pc = "split"
    /\ ci_node_index <= ci_node_total
    /\ slices' = Append(slices,
                        split_packages(packages_to_test, ci_node_total, ci_node_index))
    /\ ci_node_index' = ci_node_index + 1
    /\ UNCHANGED <<plugin_packages, plugins_to_skip_list, ci_node_total, processes,
                   packages_to_test, pc, tasks, handlers, open_logs, temp_dirs,
                   completed, results, passed_packages, failed_packages, exit_status,
                   resolved_url>>

NextSplit == SplitNode

SpecSplit == InitSplit /\ [][NextSplit]_vars

AllNodesSplit == pc = "split" /\ Len(slices) = ci_node_total

\* C1: the slices of the nodes 1..ci_node_total are pairwise disjoint and their
\* concatenation in index order is the full input list, so every package is
\* assigned to exactly one node (also when there are more nodes than packages
\* or no package at all).
C1_SlicesPartition ==
    AllNodesSplit =>
        /\ Concat(slices) = packages_to_test
        /\ \A i, j \in 1..Len(slices) :
              i # j => Range(slices[i]) \cap Range(slices[j]) = {}
        /\ \A p \in Range(packages_to_test) :
              Cardinality({i \in 1..Len(slices) : p \in Range(slices[i])}) = 1

\* C1 witness: an uneven division on several nodes has been split completely,
\* and so has a list shorter than the number of nodes.
C1_Witness ==
    /\ AllNodesSplit
    /\ ci_node_total = 3
    /\ Len(packages_to_test) \in {2, 5}
    /\ Concat(slices) = packages_to_test

(***************************************************************************)
(* The run: test_plugins, run_tests_parallel and, in the workers of the    *)
(* pool, clone_and_test_package with clone_and_checkout.                   *)
(*                                                                         *)
(* A task is the call clone_and_test_package(packages_to_test[i]) made by  *)
(* pool.map.  Its fields: st (queued, running, done), worker, pc (the      *)
(* external command it issues next), cmds (the commands issued through     *)
(* run_command so far, with argument and outcome), checkout_successful,    *)
(* and ret, the way the call ended: "True", "False", "None" (a bare        *)
(* return) or "raise" (an exception left the call).                        *)
(***************************************************************************)
\* Outcomes of run_command(...): it returns True or False, or an unexpected
\* error is raised while the stage runs.
RunResults == {"True", "False", "raise"}

\* Outcomes of the statements before the first command (lines 162-190):
\* creating the log directory and file handler, or the temporary directory,
\* may raise OSError.
SetupResults == {"ok", "raise_setup", "raise_tempdir"}

NewTask == [st |-> "queued", worker |-> 0, pc |-> "start", cmds |-> <<>>,
            checkout_successful |-> FALSE, ret |-> "pending"]

Issue(t, cmd, arg, r) ==
    [t EXCEPT !.cmds = Append(@, [cmd |-> cmd, arg |-> arg, ok |-> r])]

Idle(w) == \A i \in 1..Len(tasks) : ~(tasks[i].st = "running" /\ tasks[i].worker = w)

Queued == {i \in 1..Len(tasks) : tasks[i].st = "queued"}

Running(i, label) ==
    /\ pc = "pool"
    /\ i \in 1..Len(tasks)
    /\ tasks[i].st = "running"
    /\ tasks[i].pc = label

\* A slip of the finally clause: the cleanup is written after the body instead
\* of in a finally clause, so an exception skips it.
release_log_handler_unless_raised(attached, name, ret) ==
    IF ret = "raise" THEN attached ELSE attached \ {name}

\* finally: package_logger.removeHandler(log_handler); log_handler.close()
release_log_handler(attached, name, ret) == attached \ {name}

\* The call of task i ends with ret: the finally clause releases the log
\* handler, the with statement removes the temporary directory, and the pool
\* receives the result.
Finish(i, t, ret) ==
    LET name == packages_to_test[i].name
        w    == t.worker
    IN  /\ tasks' = [tasks EXCEPT ![i] = [t EXCEPT !.st = "done", !.pc = "done",
                                                   !.ret = ret]]
        /\ handlers' = [handlers EXCEPT ![w] = release_log_handler(@, name, ret)]
        /\ open_logs' = [open_logs EXCEPT ![w] = release_log_handler(@, name, ret)]
        /\ temp_dirs' = temp_dirs \ {i}
        /\ completed' = Append(completed, i)

\* The call of task i goes on to the command label.
Goto(i, t, label) ==
    /\ tasks' = [tasks EXCEPT ![i] = [t EXCEPT !.pc = label]]
    /\ UNCHANGED <<handlers, open_logs, temp_dirs, completed>>

MainUnchanged ==
    UNCHANGED <<plugin_packages, plugins_to_skip_list, ci_node_total, ci_node_index,
                processes, packages_to_test, pc, results, passed_packages,
                failed_packages, exit_status, slices, resolved_url>>

(***************************************************************************)
(* clone_and_checkout                                                      *)
(***************************************************************************)
\* A slip of version_tag: the dev marker is not recognised.
version_tag_with_dev(package) == package.version

\* version_tag (lines 126-130)
version_tag(package) ==
    IF package.version # None /\ ~Contains(package.version, ".dev")
    THEN package.version
    ELSE None

\* A slip of tag_name_v: the prefix is left out.
tag_name_v_without_prefix(package) == version_tag(package)

tag_name_v(package) == <<"v">> \o version_tag(package)
tag_name_no_v(package) == version_tag(package)

\* A slip of tag_fallback_needed: the negation of checkout_successful is lost.
tag_fallback_needed_negation_dropped(package, co_ok) ==
    ~Truthy(package.commit_hash) \/ co_ok

\* A slip of tag_fallback_needed: a failed commit checkout is final.
tag_fallback_needed_no_commit_only(package, co_ok) == ~Truthy(package.commit_hash)

\* The condition of the tag fallback (lines 123-125)
tag_fallback_needed(package, co_ok) == ~Truthy(package.commit_hash) \/ ~co_ok

\* Lines 123-157, entered with checkout_successful = t.checkout_successful after
\* the commit part: the tags are fetched, or the checkout is skipped and counts
\* as successful, or the commit checkout stands.
AfterCommitPart(i, t) ==
    LET package == packages_to_test[i]
    IN  IF tag_fallback_needed(package, t.checkout_successful)
        THEN IF Truthy(version_tag(package))
             THEN Goto(i, t, "fetch_tags")
             ELSE Goto(i, [t EXCEPT !.checkout_successful = TRUE], "venv")
        ELSE IF t.checkout_successful
             THEN Goto(i, t, "venv")
             ELSE Finish(i, t, "None")

\* git clone --depth 1 github_url temp_dir (lines 99-102)
Clone(i) ==
    /\ Running(i, "clone")
    /\ \E r \in RunResults :
         LET package == packages_to_test[i]
             t == Issue(tasks[i], "clone", package.github_url, r)
         IN  CASE r = "raise" -> Finish(i, t, "raise")
               [] r = "False" -> Finish(i, t, "None")
               [] r = "True"  -> IF Truthy(package.commit_hash)
                                 THEN Goto(i, t, "fetch_commit")
                                 ELSE AfterCommitPart(i, t)
    /\ MainUnchanged

\* git fetch origin commit_hash (lines 107-111)
FetchCommit(i) ==
    /\ Running(i, "fetch_commit")
    /\ \E r \in RunResults :
         LET t == Issue(tasks[i], "fetch_commit", packages_to_test[i].commit_hash, r)
         IN  CASE r = "raise" -> Finish(i, t, "raise")
               [] r = "False" -> AfterCommitPart(i, t)
               [] r = "True"  -> Goto(i, t, "checkout_commit")
    /\ MainUnchanged

\* git checkout commit_hash (lines 111-121)
CheckoutCommit(i) ==
    /\ Running(i, "checkout_commit")
    /\ \E r \in RunResults :
         LET t == Issue(tasks[i], "checkout_commit", packages_to_test[i].commit_hash, r)
         IN  CASE r = "raise" -> Finish(i, t, "raise")
               [] r = "False" -> AfterCommitPart(i, t)
               [] r = "True"  ->
                    AfterCommitPart(i, [t EXCEPT !.checkout_successful = TRUE])
    /\ MainUnchanged

\* git fetch origin --tags (lines 136-137), then the choice of the first tag
FetchTags(i) ==
    /\ Running(i, "fetch_tags")
    /\ \E r \in RunResults :
         LET package == packages_to_test[i]
             t == Issue(tasks[i], "fetch_tags", None, r)
         IN  CASE r = "raise" -> Finish(i, t, "raise")
               [] r = "False" -> Finish(i, t, "None")
               [] r = "True"  ->
                    IF tag_name_v(package) # <<"v", "0.0.0">>
                    THEN Goto(i, t, "checkout_tag_v")
                    ELSE IF tag_name_no_v(package) # <<"0.0.0">>
                         THEN Goto(i, t, "checkout_tag_no_v")
                         ELSE Finish(i, t, "None")
    /\ MainUnchanged

\* checkout_tag(temp_dir, tag_name_v) (lines 138-141, 69-83)
CheckoutTagV(i) ==
    /\ Running(i, "checkout_tag_v")
    /\ \E r \in RunResults :
         LET package == packages_to_test[i]
             t == Issue(tasks[i], "checkout_tag", tag_name_v(package), r)
         IN  CASE r = "raise" -> Finish(i, t, "raise")
               [] r = "False" ->
                    IF tag_name_no_v(package) # <<"0.0.0">>
                    THEN Goto(i, t, "checkout_tag_no_v")
                    ELSE Finish(i, t, "None")
               [] r = "True"  ->
                    Goto(i, [t EXCEPT !.checkout_successful = TRUE], "venv")
    /\ MainUnchanged

\* checkout_tag(temp_dir, tag_name_no_v) (lines 142-145, 69-83)
CheckoutTagNoV(i) ==
    /\ Running(i, "checkout_tag_no_v")
    /\ \E r \in RunResults :
         LET package == packages_to_test[i]
             t == Issue(tasks[i], "checkout_tag", tag_name_no_v(package), r)
         IN  CASE r = "raise" -> Finish(i, t, "raise")
               [] r = "False" -> Finish(i, t, "None")
               [] r = "True"  ->
                    Goto(i, [t EXCEPT !.checkout_successful = TRUE], "venv")
    /\ MainUnchanged

(***************************************************************************)
(* clone_and_test_package                                                  *)
(***************************************************************************)
\* An idle worker w takes the next queued task i and runs the call up to its
\* first command (lines 161-190): the log handler is created and attached; a
\* package without github_url returns at once; the temporary directory is
\* created.
TakeTask(w, i) ==
    /\ pc = "pool"
    /\ w \in 1..processes
    /\ Idle(w)
    /\ i \in Queued
    /\ \A j \in Queued : i <= j
    /\ \E e \in SetupResults :
         LET package == packages_to_test[i]
             t == [tasks[i] EXCEPT !.worker = w]
         IN  IF e = "raise_setup"
             THEN \* os.makedirs or logging.FileHandler raises before the try
                  /\ tasks' = [tasks EXCEPT ![i] = [t EXCEPT !.st = "done",
                                                   !.pc = "done", !.ret = "raise"]]
                  /\ completed' = Append(completed, i)
                  /\ UNCHANGED <<handlers, open_logs, temp_dirs>>
             ELSE LET attached == [handlers EXCEPT ![w] = @ \cup {package.name}]
                      opened   == [open_logs EXCEPT ![w] = @ \cup {package.name}]
                      ret      == IF package.github_url = None THEN "None" ELSE "raise"
                  IN  IF package.github_url = None \/ e = "raise_tempdir"
                      THEN \* return, or TemporaryDirectory() raises: finally runs
                           /\ tasks' = [tasks EXCEPT ![i] =
                                           [t EXCEPT !.st = "done", !.pc = "done",
                                                     !.ret = ret]]
                           /\ handlers' = [attached EXCEPT ![w] =
                                   release_log_handler(@, package.name, ret)]
                           /\ open_logs' = [opened EXCEPT ![w] =
                                   release_log_handler(@, package.name, ret)]
                           /\ completed' = Append(completed, i)
                           /\ UNCHANGED temp_dirs
                      ELSE /\ tasks' = [tasks EXCEPT ![i] =
                                           [t EXCEPT !.st = "running", !.pc = "clone"]]
                           /\ handlers' = attached
                           /\ open_logs' = opened
                           /\ temp_dirs' = temp_dirs \cup {i}
                           /\ UNCHANGED completed
    /\ MainUnchanged

\* A slip of Stage: the return after a failing stage is missing.
Stage_without_return(i, label, next) ==
    /\ Running(i, label)
    /\ \E r \in RunResults :
         LET t == Issue(tasks[i], label, None, r)
         IN  CASE r = "raise" -> Finish(i, t, "raise")
               [] r = "False" -> Goto(i, t, next)
               [] r = "True"  -> Goto(i, t, next)
    /\ MainUnchanged

\* One of the stages after the checkout: uv venv, the two installs (lines
\* 196-255).  A failing stage makes the call return None.
Stage(i, label, next) ==
    /\ Running(i, label)
    /\ \E r \in RunResults :
         LET t == Issue(tasks[i], label, None, r)
         IN  CASE r = "raise" -> Finish(i, t, "raise")
               [] r = "False" -> Finish(i, t, "None")
               [] r = "True"  -> Goto(i, t, next)
    /\ MainUnchanged

\* uv venv -p 3.12 --seed venv (lines 196-207)
Venv(i) == Stage(i, "venv", "install_distro")

\* uv pip install -r requirements.txt (lines 213-231)
InstallDistro(i) == Stage(i, "install_distro", "install_dev")

\* uv pip install -r temp_dir/pyproject.toml --all-extras (lines 237-255)
InstallDev(i) == Stage(i, "install_dev", "pytest")

\* python -m pytest (lines 263-278): True if the tests pass, else False
Pytest(i) ==
    /\ Running(i, "pytest")
    /\ \E r \in RunResults :
         LET t == Issue(tasks[i], "pytest", None, r)
         IN  CASE r = "raise" -> Finish(i, t, "raise")
               [] r = "False" -> Finish(i, t, "False")
               [] r = "True"  -> Finish(i, t, "True")
    /\ MainUnchanged

(***************************************************************************)
(* run_tests_parallel and test_plugins                                     *)
(***************************************************************************)
\* A slip of not_skipped: the skip list is not applied.
not_skipped_nothing(packages, skip) == packages

\* [package for name, package in plugin_packages.items()
\*  if name not in plugins_to_skip_list]
not_skipped(packages, skip) == SelectSeq(packages, LAMBDA p : p.name \notin skip)

\* A slip of pool_map: the results are taken in the order of completion.
pool_map_unordered(ts, order) == [k \in 1..Len(ts) |-> ts[order[k]].ret]

\* pool.map(clone_and_test_package, packages_to_test): the return values in
\* the order of the input, whatever the order of completion
pool_map(ts, order) == [i \in 1..Len(ts) |-> ts[i].ret]

\* A slip of classify: the names are prepended instead of appended.
RECURSIVE classify_reversed(_, _, _)
classify_reversed(packages, res, passed) ==
    IF packages = <<>> THEN <<>>
    ELSE LET rest == classify_reversed(Tail(packages), Tail(res), passed)
         IN  IF (Head(res) = "True") = passed
             THEN rest \o <<Head(packages).name>>
             ELSE rest

\* The names of the packages whose result is truthy (passed = TRUE) or falsy
\* (passed = FALSE), in input order (lines 316-321)
RECURSIVE classify(_, _, _)
classify(packages, res, passed) ==
    IF packages = <<>> THEN <<>>
    ELSE LET rest == classify(Tail(packages), Tail(res), passed)
         IN  IF (Head(res) = "True") = passed
             THEN <<Head(packages).name>> \o rest
             ELSE rest

\* sys.exit(1) if failed_packages, else the end of test_plugins (lines 392-396)
exit_status_of(passed, failed) == IF failed # <<>> THEN 1 ELSE 0

\* test_plugins up to the call of pool.map (lines 368-383, 309-314): the skip
\* filter, the slice of this node, exit 0 if it is empty, else one task per
\* package is handed to the pool.
TestPluginsStart ==
    /\ pc = "start"
    /\ LET slice == split_packages(not_skipped(plugin_packages, plugins_to_skip_list),
                                   ci_node_total, ci_node_index)
       IN  /\ packages_to_test' = slice
           /\ IF slice = <<>>
              THEN /\ pc' = "exit"
                   /\ exit_status' = 0
                   /\ UNCHANGED tasks
              ELSE /\ pc' = "pool"
                   /\ tasks' = [i \in 1..Len(slice) |-> NewTask]
                   /\ UNCHANGED exit_status
    /\ UNCHANGED <<plugin_packages, plugins_to_skip_list, ci_node_total, ci_node_index,
                   processes, handlers, open_logs, temp_dirs, completed, results,
                   passed_packages, failed_packages, slices, resolved_url>>

AllDone == \A i \in 1..Len(tasks) : tasks[i].st = "done"
SomeRaised == \E i \in 1..Len(tasks) : tasks[i].ret = "raise"

\* pool.map ends once every task is done, and test_plugins runs to its end
\* (lines 314-323, 385-396).  If a call raised, pool.map raises that exception
\* in the main process; nothing catches it and the process ends with status 1.
PoolMapDone ==
    /\ pc = "pool"
    /\ AllDone
    /\ pc' = "exit"
    /\ IF SomeRaised
       THEN /\ exit_status' = 1
            /\ UNCHANGED <<results, passed_packages, failed_packages>>
       ELSE LET res    == pool_map(tasks, completed)
                passed == classify(packages_to_test, res, TRUE)
                failed == classify(packages_to_test, res, FALSE)
            IN  /\ results' = res
                /\ passed_packages' = passed
                /\ failed_packages' = failed
                /\ exit_status' = exit_status_of(passed, failed)
    /\ UNCHANGED <<plugin_packages, plugins_to_skip_list, ci_node_total, ci_node_index,
                   processes, packages_to_test, tasks, handlers, open_logs, temp_dirs,
                   completed, slices, resolved_url>>

(***************************************************************************)
(* The runs of the model.                                                  *)
(***************************************************************************)
\* Distributions of the runs with several packages: "a" has no GitHub URL,
\* "b" is a dev version found by its repository field, "c" is pinned to a
\* commit by the lock data and has a release version.
RunDistributions ==
    { Distribution("a", VersionRelease, UrlOther, None, NoGitInfo),
      Distribution("b", VersionDev, None, UrlGitHub, NoGitInfo),
      Distribution("c", VersionRelease, None, None, GitInfo(UrlGitHubGit, CommitHash)) }

SkipLists == {{}, {"a"}, {"c"}, {"a", "b", "c"}}

InitRun(dist_lists, max_processes, max_nodes, skip_lists) ==
    /\ \E dists \in dist_lists : plugin_packages = get_plugin_packages(dists)
    /\ plugins_to_skip_list \in skip_lists
    /\ ci_node_total \in 1..max_nodes
    /\ ci_node_index \in 1..ci_node_total
    /\ processes \in 1..max_processes
    /\ packages_to_test = <<>>
    /\ pc = "start"
    /\ tasks = <<>>
    /\ handlers = [w \in 1..processes |-> {}]
    /\ open_logs = [w \in 1..processes |-> {}]
    /\ temp_dirs = {}
    /\ completed = <<>>
    /\ results = <<>>
    /\ passed_packages = <<>>
    /\ failed_packages = <<>>
    /\ exit_status = 0
    /\ slices = <<>>
    /\ resolved_url = None

Init == InitRun(SeqsUpTo(RunDistributions, MaxPackages), MaxProcesses, MaxNodes,
                SkipLists)

Next ==
    \/ TestPluginsStart
    \/ \E w \in 1..processes, i \in 1..Len(tasks) : TakeTask(w, i)
    \/ \E i \in 1..Len(tasks) : Clone(i)
    \/ \E i \in 1..Len(tasks) : FetchCommit(i)
    \/ \E i \in 1..Len(tasks) : CheckoutCommit(i)
    \/ \E i \in 1..Len(tasks) : FetchTags(i)
    \/ \E i \in 1..Len(tasks) : CheckoutTagV(i)
    \/ \E i \in 1..Len(tasks) : CheckoutTagNoV(i)
    \/ \E i \in 1..Len(tasks) : Venv(i)
    \/ \E i \in 1..Len(tasks) : InstallDistro(i)
    \/ \E i \in 1..Len(tasks) : InstallDev(i)
    \/ \E i \in 1..Len(tasks) : Pytest(i)
    \/ PoolMapDone

Spec == Init /\ [][Next]_vars

\* Distributions of the runs with one package: every version shape, with and
\* without a pinned commit (the git entry of the lock data being a GitHub URL
\* with or without .git, or another host), with a GitHub homepage, another
\* one or none.
PipelineVersions == {None, <<>>, VersionRelease, VersionPlaceholder, VersionDev}

PipelineDistributions ==
    { Distribution("a", v, h, None, g) :
        v \in PipelineVersions,
        h \in {None, UrlGitHub, UrlOther},
        g \in {NoGitInfo, GitInfo(UrlGitHubGit, CommitHash),
               GitInfo(UrlGitHub, CommitHash), GitInfo(UrlOther, CommitHash)} }

InitPipeline ==
    InitRun({<<>>} \cup {<<d>> : d \in PipelineDistributions}, 1, 1, {{}, {"a"}})

SpecPipeline == InitPipeline /\ [][Next]_vars

(***************************************************************************)
(* Vocabulary of the properties.                                           *)
(***************************************************************************)
TaskIds == 1..Len(tasks)
InRun == pc \in {"pool", "exit"} /\ Len(tasks) = Len(packages_to_test)

\* run_tests_parallel has returned its two lists
Returned == pc = "exit" /\ Len(packages_to_test) > 0 /\ ~SomeRaised

Issued(t, cmd) == \E k \in 1..Len(t.cmds) : t.cmds[k].cmd = cmd
Succeeded(t, cmd) == \E k \in 1..Len(t.cmds) : t.cmds[k].cmd = cmd /\ t.cmds[k].ok = "True"
TagCommands == {"fetch_tags", "checkout_tag"}
NoTagCommand(t) == \A k \in 1..Len(t.cmds) : t.cmds[k].cmd \notin TagCommands

\* The command a task issues after its k-th one, or the label "done"
FollowedBy(t, k) == IF Len(t.cmds) > k THEN t.cmds[k + 1].cmd
                    ELSE IF t.pc \in {"checkout_tag_v", "checkout_tag_no_v"}
                         THEN "checkout_tag" ELSE t.pc

(***************************************************************************)
(* Properties of the dispatcher and of the exit status.                    *)
(***************************************************************************)
\* C2: if the pipeline of one package raises an unexpected error, that package
\* is classified as failed, its log handler is released, and every other
\* package of the slice is still classified as passed or failed: once the run
\* is over, a package whose call raised is in the failed list and every
\* package of the slice is in one of the two lists.
C2_ErrorContained ==
    (pc = "exit" /\ InRun) =>
        \A i \in TaskIds :
            LET name == packages_to_test[i].name
            IN  /\ name \in Range(passed_packages) \cup Range(failed_packages)
                /\ tasks[i].ret = "raise" =>
                      /\ name \in Range(failed_packages)
                      /\ \A w \in 1..processes : name \notin handlers[w]

\* C3: a package without a valid URL (github_url is None) runs no clone and no
\* later stage and is not in the failed list, and a run in which every package
\* either passed or is unresolvable ends with exit status 0.
C3_UnresolvableSkipped ==
    Returned =>
        /\ \A i \in TaskIds :
              packages_to_test[i].github_url = None =>
                  /\ tasks[i].cmds = <<>>
                  /\ packages_to_test[i].name \notin Range(failed_packages)
        /\ (\A i \in TaskIds :
               tasks[i].ret = "True" \/ packages_to_test[i].github_url = None)
              => exit_status = 0

\* C4: the process ends with status 1 if and only if the failed list is not
\* empty after the dispatch, and with an empty slice it ends with status 0
\* and run_tests_parallel is never invoked.
C4_ExitStatus ==
    pc = "exit" =>
        /\ exit_status = 1 <=> failed_packages # <<>>
        /\ packages_to_test = <<>> => (exit_status = 0 /\ tasks = <<>>)

\* C7: whatever the order of completion, the outcome run_tests_parallel
\* attributes to a name is the one of that package's own call: the name is in
\* the passed list iff its own call returned True, and in the failed list iff
\* it did not.
C7_OutcomeByOwnRun ==
    Returned =>
        \A i \in TaskIds :
            LET name == packages_to_test[i].name
            IN  /\ results[i] = tasks[i].ret
                /\ name \in Range(passed_packages) <=> tasks[i].ret = "True"
                /\ name \in Range(failed_packages) <=> tasks[i].ret # "True"

\* C7 witness: the lists were built after the second package completed before
\* the first, with different outcomes.
C7_Witness ==
    /\ Returned
    /\ Len(completed) >= 2
    /\ completed[1] = 2
    /\ tasks[1].ret # tasks[2].ret
    /\ "True" \in {tasks[1].ret, tasks[2].ret}
    /\ passed_packages # <<>>
    /\ failed_packages # <<>>

(***************************************************************************)
(* Properties of clone_and_test_package.                                   *)
(***************************************************************************)
\* The stage a command belongs to: clone, checkout, venv creation, baseline
\* install, package install, pytest
StageOf(cmd) ==
    CASE cmd = "clone" -> 1
      [] cmd \in {"fetch_commit", "checkout_commit", "fetch_tags", "checkout_tag"} -> 2
      [] cmd = "venv" -> 3
      [] cmd = "install_distro" -> 4
      [] cmd = "install_dev" -> 5
      [] cmd = "pytest" -> 6

AllStagesSucceeded(t) ==
    /\ Succeeded(t, "clone")
    /\ t.checkout_successful
    /\ Succeeded(t, "venv")
    /\ Succeeded(t, "install_distro")
    /\ Succeeded(t, "install_dev")
    /\ Succeeded(t, "pytest")

\* C5: the stages clone, checkout, venv, baseline install, package install and
\* pytest run in that order, a stage runs only if every earlier stage
\* succeeded, nothing runs after the first failing stage, and the call returns
\* True iff all stages including pytest succeeded.
C5_StagesInOrder ==
    InRun =>
        \A i \in TaskIds :
            LET t == tasks[i]
                c == t.cmds
            IN  /\ \A k \in 1..(Len(c) - 1) :
                      /\ StageOf(c[k].cmd) <= StageOf(c[k + 1].cmd)
                      /\ StageOf(c[k].cmd) = StageOf(c[k + 1].cmd)
                            => StageOf(c[k].cmd) = 2
                /\ \A k \in 1..Len(c) :
                      LET stage == StageOf(c[k].cmd)
                      IN  /\ stage >= 2 => Succeeded(t, "clone")
                          /\ stage >= 3 => t.checkout_successful
                          /\ stage >= 4 => Succeeded(t, "venv")
                          /\ stage >= 5 => Succeeded(t, "install_distro")
                          /\ stage >= 6 => Succeeded(t, "install_dev")
                          /\ (stage # 2 /\ c[k].ok # "True")
                                => (k = Len(c) /\ t.st = "done")
                /\ (t.st = "done" /\ ~t.checkout_successful) => ~Issued(t, "venv")
                /\ t.st = "done" => (t.ret = "True" <=> AllStagesSucceeded(t))

\* C5 witness: one package went through all six stages and passed, another
\* one stopped at its failing package install.
C5_Witness ==
    /\ InRun
    /\ \E i, j \in TaskIds :
          /\ tasks[i].ret = "True"
          /\ AllStagesSucceeded(tasks[i])
          /\ tasks[j].st = "done"
          /\ tasks[j].ret = "None"
          /\ Len(tasks[j].cmds) > 0
          /\ tasks[j].cmds[Len(tasks[j].cmds)] =
                [cmd |-> "install_dev", arg |-> None, ok |-> "False"]

\* C6: on every exit path of clone_and_test_package the log handler of the
\* package is removed and closed and its temporary directory is removed, so a
\* worker running a package holds the handler of that package only.
C6_CleanupOnEveryExit ==
    InRun =>
        \A i \in TaskIds :
            LET t    == tasks[i]
                name == packages_to_test[i].name
            IN  /\ t.st = "done" =>
                      /\ \A w \in 1..processes :
                            name \notin handlers[w] /\ name \notin open_logs[w]
                      /\ i \notin temp_dirs
                /\ t.st = "running" =>
                      /\ handlers[t.worker] = {name}
                      /\ open_logs[t.worker] = {name}

\* C6 witness: a call that raised in the middle of its pipeline is over and
\* the same worker runs the next package, while a third call has returned.
C6_Witness ==
    /\ InRun
    /\ \E i, j \in TaskIds :
          /\ tasks[i].st = "done"
          /\ tasks[i].ret = "raise"
          /\ tasks[i].cmds # <<>>
          /\ tasks[j].st = "running"
          /\ tasks[j].worker = tasks[i].worker
          /\ temp_dirs = {j}

(***************************************************************************)
(* Properties of clone_and_checkout.                                       *)
(***************************************************************************)
CommitCommands == {"fetch_commit", "checkout_commit"}

\* C8: with a commit_hash, the commit fetch and checkout follow the clone and
\* come before any tag fetch or tag checkout, whatever the version; and once
\* the commit checkout succeeded no tag command is issued and the checkout
\* counts as successful.
C8_CommitFirst ==
    InRun =>
        \A i \in TaskIds :
            Truthy(packages_to_test[i].commit_hash) =>
                LET t == tasks[i]
                    c == t.cmds
                IN  /\ (Len(c) >= 1 /\ c[1].ok = "True")
                          => FollowedBy(t, 1) = "fetch_commit"
                    /\ \A k \in 1..Len(c) :
                          /\ (c[k].cmd = "fetch_commit" /\ c[k].ok = "True")
                                => FollowedBy(t, k) = "checkout_commit"
                          /\ c[k].cmd \in TagCommands
                                => \E j \in 1..(k - 1) : c[j].cmd \in CommitCommands
                          /\ (c[k].cmd = "checkout_commit" /\ c[k].ok = "True")
                                => /\ NoTagCommand(t)
                                   /\ t.checkout_successful
                                   /\ FollowedBy(t, k) = "venv"

\* C8 witness: a package with a commit and a release version whose commit
\* checkout succeeded has gone on to the venv.
C8_Witness ==
    /\ InRun
    /\ \E i \in TaskIds :
          /\ Truthy(packages_to_test[i].commit_hash)
          /\ packages_to_test[i].version = VersionRelease
          /\ Succeeded(tasks[i], "checkout_commit")
          /\ Issued(tasks[i], "venv")

\* A version a tag can be looked up for: present, not empty, without dev marker
UsableVersion(package) ==
    /\ package.version # None
    /\ package.version # <<>>
    /\ ~Contains(package.version, ".dev")

\* C9: when the commit fetch or the commit checkout fails, clone_and_checkout
\* does not stop: with a usable version it fetches the tags next (without one
\* it goes on to the venv), and a tag checkout that then succeeds makes the
\* checkout successful, so that the venv stage follows.
C9_TagFallbackAfterCommit ==
    InRun =>
        \A i \in TaskIds :
            Truthy(packages_to_test[i].commit_hash) =>
                LET t == tasks[i]
                    c == t.cmds
                IN  \A k \in 1..Len(c) :
                        /\ (c[k].cmd \in CommitCommands /\ c[k].ok = "False")
                              => FollowedBy(t, k) =
                                    IF UsableVersion(packages_to_test[i])
                                    THEN "fetch_tags" ELSE "venv"
                        /\ (c[k].cmd = "checkout_tag" /\ c[k].ok = "True")
                              => /\ t.checkout_successful
                                 /\ FollowedBy(t, k) = "venv"

\* C9 witness: the commit fetch failed, a tag checkout succeeded and the venv
\* stage was run.
C9_Witness ==
    /\ InRun
    /\ \E i \in TaskIds :
          /\ Truthy(packages_to_test[i].commit_hash)
          /\ tasks[i].cmds # <<>>
          /\ \E k \in 1..Len(tasks[i].cmds) :
                /\ tasks[i].cmds[k].cmd \in CommitCommands
                /\ tasks[i].cmds[k].ok = "False"
          /\ Succeeded(tasks[i], "checkout_tag")
          /\ Issued(tasks[i], "venv")

\* C10: without commit_hash and with a dev version, a successful clone is
\* followed by no tag fetch and no tag checkout; the checkout counts as
\* successful and the venv stage is next.
C10_DevVersionSkipsCheckout ==
    InRun =>
        \A i \in TaskIds :
            LET package == packages_to_test[i]
                t == tasks[i]
            IN  ( /\ ~Truthy(package.commit_hash)
                  /\ package.version # None
                  /\ Contains(package.version, ".dev")
                  /\ Len(t.cmds) >= 1
                  /\ t.cmds[1].ok = "True" )
                => /\ NoTagCommand(t)
                   /\ t.checkout_successful
                   /\ FollowedBy(t, 1) = "venv"

\* C10 witness: the package 1.2.3.dev0 without commit was cloned and its venv
\* was created right after.
C10_Witness ==
    /\ InRun
    /\ \E i \in TaskIds :
          /\ ~Truthy(packages_to_test[i].commit_hash)
          /\ packages_to_test[i].version = VersionDev
          /\ Len(tasks[i].cmds) >= 2
          /\ tasks[i].cmds[1] = [cmd |-> "clone", arg |-> UrlGitHub, ok |-> "True"]
          /\ tasks[i].cmds[2].cmd = "venv"

\* clone_and_checkout has returned without an unexpected error
CheckoutLabels == {"start", "clone", "fetch_commit", "checkout_commit",
                   "fetch_tags", "checkout_tag_v", "checkout_tag_no_v"}
CheckoutOver(t) ==
    /\ Succeeded(t, "clone")
    /\ t.pc \notin CheckoutLabels
    /\ t.ret # "raise"

\* A later stage of the pipeline has run or is about to
ReachedVenv(t) == t.pc = "venv" \/ Issued(t, "venv")

CommitFailed(t) ==
    \E k \in 1..Len(t.cmds) :
        t.cmds[k].cmd \in CommitCommands /\ t.cmds[k].ok = "False"

\* C11: without commit_hash and without usable version (no version, or the
\* placeholder 0.0.0), clone_and_checkout returns success after a successful
\* clone and the pipeline goes on to the later stages.
C11_NoUsableVersionSucceeds ==
    InRun =>
        \A i \in TaskIds :
            LET package == packages_to_test[i]
                t == tasks[i]
            IN  ( /\ ~Truthy(package.commit_hash)
                  /\ package.version \in {None, VersionPlaceholder}
                  /\ CheckoutOver(t) )
                => (t.checkout_successful /\ ReachedVenv(t))

\* C12: whenever the commit checkout of a package fails and no tag checkout
\* succeeds for it, none of its later stages runs and the package is in the
\* failed list.
C12_CheckoutFailureFails ==
    InRun =>
        \A i \in TaskIds :
            LET t == tasks[i]
            IN  ( /\ CommitFailed(t)
                  /\ ~Succeeded(t, "checkout_tag")
                  /\ CheckoutOver(t) )
                => /\ ~ReachedVenv(t)
                   /\ Returned =>
                         packages_to_test[i].name \in Range(failed_packages)

C16_CloneUrlValidated ==
    InRun =>
        \A i \in TaskIds :
            \A k \in 1..Len(tasks[i].cmds) :
                tasks[i].cmds[k].cmd = "clone" =>
                    /\ is_valid_github_url(tasks[i].cmds[k].arg)
                    /\ Truthy(packages_to_test[i].commit_hash)
                          => EndsWith(tasks[i].cmds[k].arg, ".git")

(***************************************************************************)
(* The URL check: get_git_url applied to one package whose three URL       *)
(* fields are drawn independently.                                         *)
(***************************************************************************)
\* The values of one URL field: None, "", a GitHub URL without and with .git,
\* and a URL of another host; path tells the fields apart.
UrlCandidates(path) ==
    { None, <<>>,
      <<"https://", "github.com", path>>,
      <<"https://", "github.com", path, ".git">>,
      <<"https://", "example.com", path>> }

InitUrl ==
    /\ \E g \in UrlCandidates("/org/explicit"),
          r \in UrlCandidates("/org/repository"),
          h \in UrlCandidates("/org/homepage") :
          plugin_packages = <<PluginPackage("a", None, h, r, g, None)>>
    /\ pc = "url"
    /\ resolved_url = None
    /\ plugins_to_skip_list = {}
    /\ ci_node_total = 1
    /\ ci_node_index = 1
    /\ processes = 1
    /\ packages_to_test = <<>>
    /\ tasks = <<>>
    /\ handlers = <<>>
    /\ open_logs = <<>>
    /\ temp_dirs = {}
    /\ completed = <<>>
    /\ results = <<>>
    /\ passed_packages = <<>>
    /\ failed_packages = <<>>
    /\ exit_status = 0
    /\ slices = <<>>

\* get_git_url(package) is called
ResolveUrl ==
    /\ pc = "url"
    /\ resolved_url' = get_git_url(plugin_packages[1])
    /\ pc' = "url_done"
    /\ UNCHANGED <<plugin_packages, plugins_to_skip_list, ci_node_total, ci_node_index,
                   processes, packages_to_test, tasks, handlers, open_logs, temp_dirs,
                   completed, results, passed_packages, failed_packages, exit_status,
                   slices>>

NextUrl == ResolveUrl

SpecUrl == InitUrl /\ [][NextUrl]_vars

\* A candidate is valid if it is a non-empty string that names github.com
ValidCandidate(url) == url \notin {None, <<>>} /\ "github.com" \in Range(url)

Ceil(n, d) == CHOOSE c \in 0..n : c * d >= n /\ (c = 0 \/ (c - 1) * d < n)

\* The packages at the positions start+1 .. end of the list that exist
\* (positions counted from 1)
PackagesAt(pkgs, start, end) ==
    [j \in 1..Max(0, Min(end, Len(pkgs)) - start) |-> pkgs[start + j]]

\* C14: with chunk_size = ceil(len / node_total) and
\* start = (node_index - 1) * chunk_size, a node other than the last gets the
\* packages at [start, start + chunk_size) in input order and the last node
\* gets the packages from start to the end; 5 packages on 2 nodes give the
\* first three to node 1 and the last two to node 2.
C14_ChunkLayout ==
    pc = "split" =>
        LET n          == Len(packages_to_test)
            chunk_size == Ceil(n, ci_node_total)
        IN  /\ \A node \in 1..Len(slices) :
                  LET start == (node - 1) * chunk_size
                  IN  slices[node] =
                          IF node = ci_node_total
                          THEN PackagesAt(packages_to_test, start, n)
                          ELSE PackagesAt(packages_to_test, start, start + chunk_size)
            /\ (n = 5 /\ ci_node_total = 2 /\ Len(slices) = 2) =>
                  /\ slices[1] = SubSeq(packages_to_test, 1, 3)
                  /\ slices[2] = SubSeq(packages_to_test, 4, 5)

\* C14 witness: five packages have been split on two nodes.
C14_Witness ==
    /\ pc = "split"
    /\ Len(packages_to_test) = 5
    /\ ci_node_total = 2
    /\ Len(slices) = 2
    /\ Len(slices[1]) = 3
    /\ Len(slices[2]) = 2

(***************************************************************************)
(* Properties of the dispatcher, continued.                                *)
(***************************************************************************)
SliceNames == {packages_to_test[i].name : i \in 1..Len(packages_to_test)}

\* The position of a name in the tested slice
SliceIndex(name) == CHOOSE i \in 1..Len(packages_to_test) : packages_to_test[i].name = name

InSliceOrder(names) ==
    \A a, b \in 1..Len(names) : a < b => SliceIndex(names[a]) < SliceIndex(names[b])

\* C17: after run_tests_parallel returned, every name of the slice is in
\* exactly one of the two lists, no other name is in them, and each list
\* keeps the input order of the slice.
C17_ListsPartitionSlice ==
    Returned =>
        /\ Range(passed_packages) \cup Range(failed_packages) = SliceNames
        /\ Range(passed_packages) \cap Range(failed_packages) = {}
        /\ Len(passed_packages) + Len(failed_packages) = Len(packages_to_test)
        /\ InSliceOrder(passed_packages)
        /\ InSliceOrder(failed_packages)

\* C17 witness: of three packages one passed and two failed.
C17_Witness ==
    /\ Returned
    /\ Len(packages_to_test) = 3
    /\ Len(passed_packages) = 1
    /\ Len(failed_packages) = 2

\* logs/<package_name>/test_output.log (cli.py, lines 163-165)
log_file_path(package_name) == <<"logs", package_name, "test_output.log">>

\* The log files a worker process has open
OpenLogPaths(w) == {log_file_path(name) : name \in open_logs[w]}

\* C18: two pipelines running at the same time in different workers never
\* write to the same log file nor use the same temporary directory: no log
\* path is open in two workers, and every running package has its own path
\* logs/<name>/test_output.log and its own temporary directory.
C18_NoSharedLogOrTempDir ==
    InRun =>
        /\ \A w1, w2 \in 1..processes :
              w1 # w2 => OpenLogPaths(w1) \cap OpenLogPaths(w2) = {}
        /\ \A i, j \in TaskIds :
              (i # j /\ tasks[i].st = "running" /\ tasks[j].st = "running") =>
                  /\ tasks[i].worker # tasks[j].worker
                  /\ log_file_path(packages_to_test[i].name)
                        # log_file_path(packages_to_test[j].name)
                  /\ log_file_path(packages_to_test[i].name)
                        \in OpenLogPaths(tasks[i].worker)
                  /\ {i, j} \subseteq temp_dirs

\* C18 witness: two packages are in the middle of their pipelines in two
\* workers at the same time.
C18_Witness ==
    /\ InRun
    /\ \E i, j \in TaskIds :
          /\ i # j
          /\ tasks[i].st = "running"
          /\ tasks[j].st = "running"
          /\ Issued(tasks[i], "clone")
          /\ Issued(tasks[j], "clone")

\* The packages of plugin_packages whose name is not in the skip list, in
\* their order
KeptIndices == {i \in 1..Len(plugin_packages) :
                  plugin_packages[i].name \notin plugins_to_skip_list}
KthKept(k) == CHOOSE i \in KeptIndices :
                  Cardinality({j \in KeptIndices : j <= i}) = k
PostSkipList == [k \in 1..Cardinality(KeptIndices) |-> plugin_packages[KthKept(k)]]

\* C19: a package named in the skip list is never dispatched and is in
\* neither list, and the slice of the node is cut out of the list that is
\* left after the skip filter.
C19_SkippedNeverDispatched ==
    pc \in {"pool", "exit"} =>
        /\ SliceNames \cap plugins_to_skip_list = {}
        /\ Len(tasks) = Len(packages_to_test)
        /\ (Range(passed_packages) \cup Range(failed_packages))
              \cap plugins_to_skip_list = {}
        /\ LET chunk_size == Ceil(Len(PostSkipList), ci_node_total)
               start      == (ci_node_index - 1) * chunk_size
           IN  packages_to_test =
                   IF ci_node_index = ci_node_total
                   THEN PackagesAt(PostSkipList, start, Len(PostSkipList))
                   ELSE PackagesAt(PostSkipList, start, start + chunk_size)

\* C19 witness: package a is discovered and skipped, the rest is split on two
\* nodes and this node has reported its packages.
C19_Witness ==
    /\ Returned
    /\ plugins_to_skip_list = {"a"}
    /\ \E i \in 1..Len(plugin_packages) : plugin_packages[i].name = "a"
    /\ Len(plugin_packages) = 3
    /\ ci_node_total = 2
    /\ Len(packages_to_test) = 1

(***************************************************************************)
(* Termination.  run_command is subprocess.run without a timeout, and      *)
(* pool.map waits for every call: the run goes on as long as every command *)
(* that was started returns and the pool hands out the queued calls.       *)
(***************************************************************************)
MaxLivePackages == 2

\* The command task i is waiting for returns.
Command(i) ==
    \/ Clone(i)
    \/ FetchCommit(i)
    \/ CheckoutCommit(i)
    \/ FetchTags(i)
    \/ CheckoutTagV(i)
    \/ CheckoutTagNoV(i)
    \/ Venv(i)
    \/ InstallDistro(i)
    \/ InstallDev(i)
    \/ Pytest(i)

\* The steps of the main process and of the pool: the start of test_plugins,
\* an idle worker taking the next queued call, the end of pool.map.
Schedule ==
    \/ TestPluginsStart
    \/ \E w \in 1..processes, i \in 1..Len(tasks) : TakeTask(w, i)
    \/ PoolMapDone

InitLive ==
    InitRun(SeqsUpTo(RunDistributions, MaxLivePackages), MaxProcesses, MaxNodes, {{}})

Fairness ==
    /\ WF_vars(Schedule)
    /\ \A i \in 1..MaxLivePackages : WF_vars(Command(i))

SpecLive == InitLive /\ [][Next]_vars /\ Fairness

\* No call of run_command ended with an exception
NoCommandRaised ==
    \A i \in TaskIds : \A k \in 1..Len(tasks[i].cmds) : tasks[i].cmds[k].ok # "raise"

\* Every package of the slice is in exactly one of the two lists, once
EveryPackageHasOneOutcome ==
    /\ \A name \in SliceNames :
          (name \in Range(passed_packages)) # (name \in Range(failed_packages))
    /\ Len(passed_packages) + Len(failed_packages) = Len(packages_to_test)

\* The run ends with an exit status (checked on its own: it holds).
RunTerminates == <>(pc = "exit" /\ exit_status \in {0, 1})

\* C20: if every command started through run_command returns, the run
\* eventually ends with an exit status and every package of the slice has
\* exactly one outcome by then; and the run never ends while a call is
\* unfinished, so a command that never returns keeps the run from completing.
C20_EveryPackageGetsOutcome ==
    /\ <>(pc = "exit" /\ exit_status \in {0, 1}
             /\ (NoCommandRaised => EveryPackageHasOneOutcome))
    /\ [](pc = "exit" => AllDone)

(***************************************************************************)
(* The size of a node's slice.                                             *)
(***************************************************************************)
\* C21: the slice of every node, the last one included, holds at most
\* ceil(len(packages) / node_total) packages, so the last node never carries
\* more packages than an earlier node that got a full chunk.
C21_SliceSizeBound ==
    pc = "split" =>
        LET chunk_size == Ceil(Len(packages_to_test), ci_node_total)
        IN  /\ \A node \in 1..Len(slices) : Len(slices[node]) <= chunk_size
            /\ Len(slices) = ci_node_total =>
                  \A node \in 1..(ci_node_total - 1) :
                      Len(slices[node]) = chunk_size =>
                          Len(slices[ci_node_total]) <= Len(slices[node])

\* C21 witness: an uneven division, five packages on three nodes: the first
\* two nodes got a full chunk of two and the last node the one that is left.
C21_Witness ==
    /\ pc = "split"
    /\ Len(packages_to_test) = 5
    /\ ci_node_total = 3
    /\ Len(slices) = 3
    /\ Len(slices[1]) = 2
    /\ Len(slices[3]) = 1

====
